---------------------------- MODULE Spec2Model ----------------------------
(***************************************************************************)
(* A model of svfmt (svfmt/src/lib.rs): the render Buffer, the recursive   *)
(* Formatter over a syntax tree, and the entry point format().             *)
(*                                                                         *)
(* Text is a sequence of one-character strings.  A syntax node is a record *)
(*   [sym, named, kind, text, srow, erow, kids]                            *)
(* where sym is Symbol::from(node.kind_id()), kind is node.kind(), text is *)
(* the node's source bytes, srow/erow are start_position().row and         *)
(* end_position().row, kids are node.children() (anonymous tokens too).    *)
(*                                                                         *)
(* The recursion of the Formatter is run as a machine: `stack` holds the   *)
(* code still to run (the innermost call first), every loop of the source  *)
(* is a task carrying its index, and every call leaves a "ret" task that   *)
(* records in `log` the part of the buffer the call produced.              *)
(***************************************************************************)
EXTENDS Integers, Sequences, FiniteSets, TLC

VARIABLES
    tree,     \* the syntax tree being rendered (tree.root_node())
    pass,     \* 1: format(input); 2: format(format(input))
    first,    \* what pass 1 wrote to the sink
    bufs,     \* the live Buffers, the innermost last: bufs[1] is format()'s b,
              \* the others are to_line_buffer()'s scratch buffers
    frags,    \* per running format_tf_port_list, the fragments collected so far
    stack,    \* the code still to run
    log,      \* ghost: one entry per returned call (in SpecBuffer: per Buffer call)
    failed,   \* ghost: the path and symbol of the node whose ensure! failed
    result,   \* "run", "ok", "err", "ioerr", "panic", "abort"
    sink      \* the bytes written to f

vars == <<tree, pass, first, bufs, frags, stack, log, failed, result, sink>>

----------------------------------------------------------------------------
(* Program constants *)

\* lib.rs:416, the width budget of format_tf_port_list
WidthBudget == 80
\* lib.rs:142 and 147, the indentation unit
IndentUnit == 4

(* Bounds of the model *)

\* the most statements and comments in a modelled function body
MaxItems == 2
\* the largest row difference between two consecutive body items
MaxRowGap == 3
\* the most declarations in a modelled source file
MaxDecls == 2
\* the most calls made on the Buffer in the Buffer specification
MaxCalls == 5

----------------------------------------------------------------------------
(* Text *)

NL == "\n"
SP == " "

T_function    == <<"f","u","n","c","t","i","o","n">>
T_endfunction == <<"e","n","d","f","u","n","c","t","i","o","n">>
T_class       == <<"c","l","a","s","s">>
T_endclass    == <<"e","n","d","c","l","a","s","s">>
T_int         == <<"i","n","t">>
T_return      == <<"r","e","t","u","r","n">>
T_break       == <<"b","r","e","a","k">>

Spaces(n) == [i \in 1..n |-> SP]
Name(c, n) == [i \in 1..n |-> c]

EndsWithNL(s) == Len(s) > 0 /\ s[Len(s)] = NL

RECURSIVE Join(_, _)
Join(ss, sep) ==
    IF Len(ss) = 0 THEN <<>>
    ELSE IF Len(ss) = 1 THEN ss[1]
    ELSE ss[1] \o sep \o Join(Tail(ss), sep)

RECURSIVE Concat(_)
Concat(ss) == IF Len(ss) = 0 THEN <<>> ELSE Head(ss) \o Concat(Tail(ss))

\* the characters of s after its last line break
LastLine(s) ==
    LET nls == {i \in 1..Len(s) : s[i] = NL}
        k == IF nls = {} THEN 0 ELSE CHOOSE i \in nls : \A j \in nls : j <= i
    IN SubSeq(s, k + 1, Len(s))

\* s from its first character that is not a space
RECURSIVE Strip(_)
Strip(s) == IF Len(s) > 0 /\ Head(s) = SP THEN Strip(Tail(s)) ELSE s

StartsWith(s, p) == Len(s) >= Len(p) /\ SubSeq(s, 1, Len(p)) = p
EndsWith(s, p) == Len(s) >= Len(p) /\ SubSeq(s, Len(s) - Len(p) + 1, Len(s)) = p

\* the index of the first occurrence of character c in s at or after i, or 0
Find(s, c, i) ==
    LET hits == {j \in i..Len(s) : s[j] = c}
    IN IF hits = {} THEN 0 ELSE CHOOSE j \in hits : \A k \in hits : j <= k

\* s split at every occurrence of character c
RECURSIVE Split(_, _)
Split(s, c) ==
    LET k == Find(s, c, 1)
    IN IF k = 0 THEN <<s>>
       ELSE <<SubSeq(s, 1, k - 1)>> \o Split(SubSeq(s, k + 1, Len(s)), c)

----------------------------------------------------------------------------
(* Buffer *)

\* Buffer::with_capacity
NewBuffer ==
    [content |-> <<>>, line_length |-> 0, indent |-> 0, insert_blank_line |-> FALSE]

\* Buffer::push_indent: the spaces it adds to content
PushIndent(b) == Spaces(b.indent)

\* Buffer::push
Push(b, c) ==
    LET ll == IF c = NL THEN 0 ELSE b.line_length + 1
        atStart == c # NL /\ EndsWithNL(b.content)
        blank == IF atStart /\ b.insert_blank_line THEN <<NL>> ELSE <<>>
        ind == IF atStart THEN PushIndent(b) ELSE <<>>
    IN [b EXCEPT !.content = b.content \o blank \o ind \o <<c>>,
                 !.line_length = ll,
                 !.insert_blank_line = IF atStart THEN FALSE ELSE @]

\* Buffer::push_str: push for every character of s in order (the string is
\* halved to keep the evaluation shallow)
RECURSIVE PushStr(_, _)
PushStr(b, s) ==
    IF Len(s) = 0 THEN b
    ELSE IF Len(s) = 1 THEN Push(b, s[1])
    ELSE LET h == Len(s) \div 2
             mid == PushStr(b, SubSeq(s, 1, h))
         IN IF mid.indent = b.indent   \* push leaves indent alone; mid is computed first
            THEN PushStr(mid, SubSeq(s, h + 1, Len(s)))
            ELSE mid

\* an indentation change that keeps a pending blank line
IndentOnly(b) == [b EXCEPT !.indent = b.indent + IndentUnit]
DedentOnly(b) == [b EXCEPT !.indent = b.indent - IndentUnit]

\* Buffer::increment_indent.  usize arithmetic is modulo 2^64; a value of
\* 2^63 or more is written as its negative representative (-4 is 2^64 - 4).
IncrementIndent(b) ==
    [b EXCEPT !.indent = b.indent + IndentUnit, !.insert_blank_line = FALSE]

\* Buffer::decrement_indent, where the subtraction does not overflow or wraps
DecrementIndent(b) ==
    [b EXCEPT !.indent = b.indent - IndentUnit, !.insert_blank_line = FALSE]

\* Buffer::maybe_blank_line
MaybeBlankLine(b) == [b EXCEPT !.insert_blank_line = TRUE]

\* push_str(s) on b reaches push_indent
ReachesPushIndent(b, s) ==
    \E i \in 1..Len(s) :
        /\ s[i] # NL
        /\ IF i = 1 THEN EndsWithNL(b.content) ELSE s[i - 1] = NL

----------------------------------------------------------------------------
(* The syntax tree *)

\* Symbol::from(kind_id), the table build.rs generates from parser.c: only the
\* lines that start with sym_ or alias_sym_ give a Symbol; every other id
\* (an anon_sym_ token, the parser's built-in ERROR id) is Symbol::Undefined.
SymbolFrom(id) ==
    IF id.cls \in {"sym", "alias_sym"} THEN id.name ELSE "Undefined"

Sym(n) == SymbolFrom(n.id)

\* node.child_count()
ChildCount(n) == Len(n.kids)

RECURSIVE NodeAt(_, _)
NodeAt(n, p) == IF Len(p) = 0 THEN n ELSE NodeAt(n.kids[Head(p)], Tail(p))

\* node.children().filter(|n| n.is_named()), as child indices in order
NamedChildren(n) ==
    LET F[i \in 0..Len(n.kids)] ==
            IF i = 0 THEN <<>>
            ELSE IF n.kids[i].named THEN Append(F[i - 1], i) ELSE F[i - 1]
    IN F[Len(n.kids)]

\* Terminals::collect_terminals, as the texts of the terminals in order
RECURSIVE CollectTerminals(_)
CollectTerminals(n) ==
    Concat([i \in 1..Len(n.kids) |->
        (IF ChildCount(n.kids[i]) = 0 THEN <<n.kids[i].text>> ELSE <<>>)
            \o CollectTerminals(n.kids[i])])

\* Formatter::format_terminals
FormatTerminals(n, sep) == Join(CollectTerminals(n), sep)

\* the rows from the end of the previous sibling, whatever it is
RowsAfterPreviousSibling(parent, i) ==
    IF i = 1 THEN 0 ELSE parent.kids[i].srow - parent.kids[i - 1].erow

\* Formatter::blank_lines_after_previous_function_item for child i of parent
BlankLinesAfterPreviousFunctionItem(parent, i) ==
    IF i = 1 THEN 0
    ELSE LET node == parent.kids[i]
             prev == parent.kids[i - 1]
             difference == node.srow - prev.erow
         IN IF Sym(prev) \in {"FunctionStatementOrNull", "Comment"}
            THEN IF difference = 0 THEN 0 ELSE difference - 1
            ELSE 0

Parent(p) == SubSeq(p, 1, Len(p) - 1)
Last(p) == p[Len(p)]

----------------------------------------------------------------------------
(* Tasks: the code still to run *)

\* indent is ghost: in a "ret" task, the indent of the buffer when the rule was entered
Task(op, path, i, s) ==
    [op |-> op, path |-> path, i |-> i, s |-> s, rule |-> "", indent |-> 0]

TNode(p)     == Task("node", p, 0, <<>>)      \* self.format_node(buffer, node)
TExpr(p)     == Task("expr", p, 0, <<>>)      \* self.format_expression(buffer, node)
TStmt(p)     == Task("stmt", p, 0, <<>>)      \* self.format_function_statement_or_null
TPorts(p)    == Task("ports", p, 0, <<>>)     \* self.format_tf_port_list
TScratch(p)  == Task("scratch", p, 0, <<>>)   \* self.to_line_buffer(Self::format_node, child)
TScratchEnd  == Task("scratch_end", <<>>, 0, <<>>)
TCommit(p)   == Task("commit", p, 0, <<>>)    \* lib.rs:414-430
TStr(s)      == Task("str", <<>>, 0, s)       \* buffer.push_str(s), buffer.push(c)
TInc         == Task("inc", <<>>, 0, <<>>)
TDec         == Task("dec", <<>>, 0, <<>>)
TMbl         == Task("mbl", <<>>, 0, <<>>)
Cur == bufs[Len(bufs)]
\* the buffer a call writes to, were it the real one whatever the call is given
SetReal(b) == [bufs EXCEPT ![1] = b]
SetCur(b) == [bufs EXCEPT ![Len(bufs)] = b]

\* rule returns from its call on p, entered at position from of the buffer
TRet(rule, p, from) ==
    [Task("ret", p, from, <<>>) EXCEPT !.rule = rule, !.indent = Cur.indent]

Running == result = "run" /\ Len(stack) > 0
Top == Head(stack)
Rest == Tail(stack)
TopNode == NodeAt(tree, Top.path)
Here == Len(Cur.content)

NoFailure == [path |-> <<>>, sym |-> "", error |-> ""]
Failure(p, e) == [path |-> p, sym |-> Sym(NodeAt(tree, p)), error |-> e]

\* an ensure! whose error is noted and not returned
EnsureUnchecked(cond, p, e, ts) ==
    /\ stack' = (IF cond THEN ts \o Rest ELSE <<>>)
    /\ failed' = (IF cond THEN failed ELSE Failure(p, e))
    /\ UNCHANGED result

\* ensure!(cond, e) in the call on node p, followed by the tasks ts
Ensure(cond, p, e, ts) ==
    IF cond
    THEN /\ stack' = ts \o Rest
         /\ UNCHANGED <<failed, result>>
    ELSE /\ stack' = <<>>
         /\ failed' = Failure(p, e)
         /\ result' = "err"

----------------------------------------------------------------------------
(* Formatter: one action per function or match arm *)

\* the arms of the match in format_function_declaration for child i of body bp
FunctionBodyArm(bp, i) ==
    LET child == NodeAt(tree, bp).kids[i]
        s == Sym(child)
    IN IF s = "FunctionDataTypeOrImplicit1"
       THEN <<TStr(FormatTerminals(child, <<SP>>)), TStr(<<SP>>)>>
       ELSE IF s = "FunctionIdentifier"
       THEN <<TStr(FormatTerminals(child, <<SP>>))>>
       ELSE IF s = "TfPortList"
       THEN <<TPorts(bp \o <<i>>), TStr(<<NL>>)>>
       ELSE IF s = "FunctionStatementOrNull"
       THEN <<TInc, TStmt(bp \o <<i>>), TDec>>
       ELSE IF s = "Comment"
       THEN <<TInc, Task("comment", bp \o <<i>>, 0, <<>>), TDec>>
       ELSE <<>>

\* format_function_declaration
FormatFunctionDeclaration ==
    /\ Running /\ Top.op = "node" /\ Sym(TopNode) = "FunctionDeclaration"
    /\ LET p == Top.path
           n == TopNode
           body == n.kids[2]
       IN IF ChildCount(n) # 2
          THEN Ensure(FALSE, p, "InvalidCount", <<>>)
          ELSE Ensure(n.kids[1].kind = "function" /\ Sym(body) = "FunctionBodyDeclaration",
                      p, "InvalidKind",
                      <<TStr(T_function \o <<SP>>)>>
                        \o Concat([i \in 1..Len(body.kids) |-> FunctionBodyArm(p \o <<2>>, i)])
                        \o <<TStr(T_endfunction \o <<NL>>), TMbl, TRet("format_function_declaration", p, Here)>>)
    /\ UNCHANGED <<tree, pass, first, bufs, frags, log, sink>>

\* the Symbol::Comment arm of format_function_declaration, between its
\* increment_indent and decrement_indent
FunctionBodyComment ==
    /\ Running /\ Top.op = "comment"
    /\ LET p == Top.path
       IN stack' = (IF BlankLinesAfterPreviousFunctionItem(NodeAt(tree, Parent(p)), Last(p)) > 0
                    THEN <<TStr(<<NL>>)>> ELSE <<>>)
                    \o <<TStr(TopNode.text), TStr(<<NL>>), TRet("comment", p, Here)>> \o Rest
    /\ UNCHANGED <<tree, pass, first, bufs, frags, log, failed, result, sink>>

\* format_function_statement_or_null
FormatFunctionStatementOrNull ==
    /\ Running /\ Top.op = "stmt"
    /\ LET p == Top.path
       IN Ensure(ChildCount(TopNode) = 1, p, "InvalidCount",
                 (IF BlankLinesAfterPreviousFunctionItem(NodeAt(tree, Parent(p)), Last(p)) > 0
                  THEN <<TStr(<<NL>>)>> ELSE <<>>)
                   \o <<TNode(p \o <<1>>), TStr(<<";", NL>>), TRet("format_function_statement_or_null", p, Here)>>)
    /\ UNCHANGED <<tree, pass, first, bufs, frags, log, sink>>

\* the arms of the match in format_class_declaration for child i of class p
ClassArm(p, i) ==
    LET n == NodeAt(tree, p)
        child == n.kids[i]
        s == Sym(child)
        class_item_seen == \E j \in 1..(i - 1) : Sym(n.kids[j]) = "ClassItem"
    IN IF s = "ClassIdentifier"
       THEN <<TStr(FormatTerminals(child, <<SP>>))>>
       ELSE IF s = "ClassItem"
       THEN (IF ~class_item_seen THEN <<TStr(<<";", NL>>), TInc>> ELSE <<>>)
                \o <<TNode(p \o <<i>>)>>
       ELSE <<>>

\* format_class_declaration
FormatClassDeclaration ==
    /\ Running /\ Top.op = "node" /\ Sym(TopNode) = "ClassDeclaration"
    /\ LET p == Top.path
       IN stack' = <<TStr(T_class \o <<SP>>)>>
                    \o Concat([i \in 1..Len(TopNode.kids) |-> ClassArm(p, i)])
                    \o <<TDec, TStr(T_endclass \o <<NL>>), TMbl, TRet("format_class_declaration", p, Here)>> \o Rest
    /\ UNCHANGED <<tree, pass, first, bufs, frags, log, failed, result, sink>>

\* format_expression, called by format_node or directly
FormatExpression ==
    /\ Running
    /\ \/ Top.op = "expr"
       \/ Top.op = "node" /\ Sym(TopNode) = "Expression"
    /\ LET p == Top.path
           n == TopNode
       IN IF ChildCount(n) = 3
          THEN Ensure(TRUE, p, "",
                      <<TNode(p \o <<1>>), TStr(<<SP>>), TStr(n.kids[2].text), TStr(<<SP>>),
                        TNode(p \o <<3>>), TRet("format_expression", p, Here)>>)
          ELSE Ensure(ChildCount(n) = 1, p, "InvalidCount",
                      <<TNode(p \o <<1>>), TRet("format_expression", p, Here)>>)
    /\ UNCHANGED <<tree, pass, first, bufs, frags, log, sink>>

\* format_jump_statement
FormatJumpStatement ==
    /\ Running /\ Top.op = "node" /\ Sym(TopNode) = "JumpStatement"
    /\ ChildCount(TopNode) > 0
    /\ LET p == Top.path
           n == TopNode
       IN stack' = <<TStr(n.kids[1].text)>>
                    \o (IF ChildCount(n) = 3 THEN <<TStr(<<SP>>), TExpr(p \o <<2>>)>> ELSE <<>>)
                    \o <<TRet("format_jump_statement", p, Here)>> \o Rest
    /\ UNCHANGED <<tree, pass, first, bufs, frags, log, failed, result, sink>>

\* an OperatorAssignment copied from the source as it stands
CopyOperatorAssignment ==
    /\ Running /\ Top.op = "node" /\ Sym(TopNode) = "OperatorAssignment"
    /\ Ensure(ChildCount(TopNode) = 3, Top.path, "InvalidCount",
              <<TStr(TopNode.text), TRet("format_operator_assignment", Top.path, Here)>>)
    /\ UNCHANGED <<tree, pass, first, bufs, frags, log, sink>>

\* format_operator_assignment
FormatOperatorAssignment ==
    /\ Running /\ Top.op = "node" /\ Sym(TopNode) = "OperatorAssignment"
    /\ LET p == Top.path
           n == TopNode
       IN Ensure(ChildCount(n) = 3, p, "InvalidCount",
                 <<TStr(n.kids[1].text), TStr(<<SP>>), TStr(n.kids[2].text), TStr(<<SP>>),
                   TExpr(p \o <<3>>), TRet("format_operator_assignment", p, Here)>>)
    /\ UNCHANGED <<tree, pass, first, bufs, frags, log, sink>>

\* the arms of format_node that push the node's own text
TextSymbols == {"IntegerAtomType", "SimpleIdentifier", "PrimaryLiteral"}

FormatNodeText ==
    /\ Running /\ Top.op = "node" /\ Sym(TopNode) \in TextSymbols
    /\ stack' = <<TStr(TopNode.text)>>
                 \o (IF Sym(TopNode) = "IntegerAtomType" THEN <<TStr(<<SP>>)>> ELSE <<>>)
                 \o <<TRet("format_node", Top.path, Here)>> \o Rest
    /\ UNCHANGED <<tree, pass, first, bufs, frags, log, failed, result, sink>>

\* format_list_of_arguments
FormatListOfArguments ==
    /\ Running /\ Top.op = "node" /\ Sym(TopNode) = "ListOfArgumentsParent"
    /\ LET p == Top.path
           children == NamedChildren(TopNode)
       IN stack' = <<TStr(<<"(">>)>>
                    \o Concat([k \in 1..Len(children) |->
                          <<TNode(p \o <<children[k]>>)>>
                            \o (IF k < Len(children) THEN <<TStr(<<",", SP>>)>> ELSE <<>>)])
                    \o <<TStr(<<")">>), TRet("format_list_of_arguments", p, Here)>> \o Rest
    /\ UNCHANGED <<tree, pass, first, bufs, frags, log, failed, result, sink>>

\* the symbols format_node has an arm for
RuledSymbols ==
    {"FunctionDeclaration", "ClassDeclaration", "Expression", "JumpStatement",
     "OperatorAssignment", "ListOfArgumentsParent"} \cup TextSymbols

\* no call, and the calls on the children of node p last to first
NoCalls(p) == <<>>
ReverseCalls(p) ==
    [i \in 1..Len(NodeAt(tree, p).kids) |-> TNode(p \o <<Len(NodeAt(tree, p).kids) + 1 - i>>)]

\* format_children: the calls it makes on node p
FormatChildrenCalls(p) ==
    [i \in 1..Len(NodeAt(tree, p).kids) |-> TNode(p \o <<i>>)]

\* the default arm of format_node: format_children
FormatChildren ==
    /\ Running /\ Top.op = "node" /\ Sym(TopNode) \notin RuledSymbols
    /\ stack' = FormatChildrenCalls(Top.path) \o <<TRet("format_children", Top.path, Here)>> \o Rest
    /\ UNCHANGED <<tree, pass, first, bufs, frags, log, failed, result, sink>>

\* format_tf_port_list, lines 408-412: every named child goes through to_line_buffer
FormatTfPortList ==
    /\ Running /\ Top.op = "ports"
    /\ LET p == Top.path
           children == NamedChildren(TopNode)
       IN stack' = [k \in 1..Len(children) |-> TScratch(p \o <<children[k]>>)]
                    \o <<TCommit(p), TRet("format_tf_port_list", p, Here)>> \o Rest
    /\ frags' = Append(frags, <<>>)
    /\ UNCHANGED <<tree, pass, first, bufs, log, failed, result, sink>>

\* to_line_buffer: a fresh Buffer, then f(self, &mut b, node)
ToLineBuffer ==
    /\ Running /\ Top.op = "scratch"
    /\ bufs' = Append(bufs, NewBuffer)
    /\ stack' = <<TNode(Top.path), TScratchEnd>> \o Rest
    /\ UNCHANGED <<tree, pass, first, frags, log, failed, result, sink>>

\* to_line_buffer returns b.to_string(), which collect() adds to children
ToLineBufferReturn ==
    /\ Running /\ Top.op = "scratch_end"
    /\ frags' = [frags EXCEPT ![Len(frags)] = Append(@, Cur.content)]
    /\ bufs' = SubSeq(bufs, 1, Len(bufs) - 1)
    /\ stack' = Rest
    /\ UNCHANGED <<tree, pass, first, log, failed, result, sink>>

\* format!("({});", children.join(", "))
SingleLine(children) == <<"(">> \o Join(children, <<",", SP>>) \o <<")", ";">>

\* the test of line 416
FitsOnLine(b, single_line) == b.line_length + Len(single_line) <= WidthBudget

\* format_tf_port_list, lines 414-430: the single line or one child per line
CommitTfPortList ==
    /\ Running /\ Top.op = "commit"
    /\ LET children == frags[Len(frags)]
           single_line == SingleLine(children)
       IN stack' = (IF FitsOnLine(Cur, single_line)
                    THEN <<TStr(single_line)>>
                    ELSE <<TStr(<<"(", NL>>), TInc>>
                           \o Concat([k \in 1..Len(children) |->
                                 <<TStr(children[k])>>
                                   \o (IF k < Len(children) THEN <<TStr(<<",">>)>> ELSE <<>>)
                                   \o <<TStr(<<NL>>)>>])
                           \o <<TDec, TStr(<<")", ";">>)>>)
                    \o Rest
    /\ frags' = SubSeq(frags, 1, Len(frags) - 1)
    /\ UNCHANGED <<tree, pass, first, bufs, log, failed, result, sink>>

----------------------------------------------------------------------------
(* Buffer calls *)

\* buffer.push_str(s) and buffer.push(c)
CallPushStr ==
    /\ Running /\ Top.op = "str"
    /\ ~(Cur.indent < 0 /\ ReachesPushIndent(Cur, Top.s))
    /\ bufs' = SetCur(PushStr(Cur, Top.s))
    /\ stack' = Rest
    /\ UNCHANGED <<tree, pass, first, frags, log, failed, result, sink>>

\* push_indent with an indent that wrapped below zero: the loop of 2^64 - 4
\* pushes does not end before memory does
CallPushStrAbort ==
    /\ Running /\ Top.op = "str"
    /\ Cur.indent < 0 /\ ReachesPushIndent(Cur, Top.s)
    /\ result' = "abort"
    /\ stack' = <<>>
    /\ UNCHANGED <<tree, pass, first, bufs, frags, log, failed, sink>>

CallIncrementIndent ==
    /\ Running /\ Top.op = "inc"
    /\ bufs' = SetCur(IncrementIndent(Cur))
    /\ stack' = Rest
    /\ UNCHANGED <<tree, pass, first, frags, log, failed, result, sink>>

\* decrement_indent; with indent < 4 this is the build without overflow
\* checks, where the subtraction wraps
CallDecrementIndent ==
    /\ Running /\ Top.op = "dec"
    /\ bufs' = SetCur(DecrementIndent(Cur))
    /\ stack' = Rest
    /\ UNCHANGED <<tree, pass, first, frags, log, failed, result, sink>>

\* decrement_indent with indent < 4 in a build with overflow checks
CallDecrementIndentPanic ==
    /\ Running /\ Top.op = "dec"
    /\ Cur.indent >= 0 /\ Cur.indent < IndentUnit
    /\ result' = "panic"
    /\ stack' = <<>>
    /\ UNCHANGED <<tree, pass, first, bufs, frags, log, failed, sink>>

CallMaybeBlankLine ==
    /\ Running /\ Top.op = "mbl"
    /\ bufs' = SetCur(MaybeBlankLine(Cur))
    /\ stack' = Rest
    /\ UNCHANGED <<tree, pass, first, frags, log, failed, result, sink>>

\* a call returns Ok(()): ghost, the log gets what the call added to its buffer
LogEntry(t) ==
    [rule |-> t.rule, path |-> t.path, lvl |-> Len(bufs), from |-> t.i, to |-> Here,
     text |-> SubSeq(Cur.content, t.i + 1, Here)]

Return ==
    /\ Running /\ Top.op = "ret"
    /\ log' = Append(log, LogEntry(Top))
    /\ stack' = Rest
    /\ UNCHANGED <<tree, pass, first, bufs, frags, failed, result, sink>>

----------------------------------------------------------------------------
(* format *)

\* what format() hands to the sink on success: write!(f, "{}", b)
Written(b) == b.content

\* format(), line 58, the sink taking the bytes
WriteSink ==
    /\ result = "run" /\ Len(stack) = 0
    /\ sink' = sink \o Written(bufs[1])
    /\ result' = "ok"
    /\ UNCHANGED <<tree, pass, first, bufs, frags, stack, log, failed>>

\* format(), line 58, the sink refusing the write: Error::IoError
WriteSinkFails ==
    /\ result = "run" /\ Len(stack) = 0
    /\ result' = "ioerr"
    /\ UNCHANGED <<tree, pass, first, bufs, frags, stack, log, failed, sink>>

----------------------------------------------------------------------------
(* Syntax trees as the parser builds them *)

SymNode(name, text, srow, erow, kids) ==
    [id |-> [cls |-> "sym", name |-> name], named |-> TRUE, kind |-> name,
     text |-> text, srow |-> srow, erow |-> erow, kids |-> kids]

\* an anonymous token: its id is an anon_sym_ one, its kind is its text
Anon(kind, text, row) ==
    [id |-> [cls |-> "anon_sym", name |-> kind], named |-> FALSE, kind |-> kind,
     text |-> text, srow |-> row, erow |-> row, kids |-> <<>>]

\* the parser's error-recovery node: a named node whose id is not in the table
ErrorNode(text, row, kids) ==
    [id |-> [cls |-> "builtin", name |-> "ERROR"], named |-> TRUE, kind |-> "ERROR",
     text |-> text, srow |-> row, erow |-> row, kids |-> kids]

\* a node with the one child kid, spanning it
Wrap(name, kid) == SymNode(name, kid.text, kid.srow, kid.erow, <<kid>>)

Ident(text, row) == SymNode("SimpleIdentifier", text, row, row, <<>>)
Literal(text, row) == SymNode("PrimaryLiteral", text, row, row, <<>>)
IntType(row) == SymNode("IntegerAtomType", T_int, row, row, <<Anon("int", T_int, row)>>)
Punct(c, row) == Anon(c, <<c>>, row)

\* an expression that is one primary
PrimaryExpr(leaf) == Wrap("Expression", Wrap("Primary", leaf))

\* left op right
BinaryExpr(left, op, right) ==
    SymNode("Expression", left.text \o <<SP, op, SP>> \o right.text, left.srow, right.erow,
            <<left, Punct(op, left.srow), right>>)

Digits == {"0", "1", "2", "3", "4", "5", "6", "7", "8", "9"}

\* a primary: a literal when it starts with a digit, else an identifier
Primary(t, row) ==
    PrimaryExpr(IF t[1] \in Digits THEN Literal(t, row) ELSE Ident(t, row))

\* name(args): a call with primaries as arguments
Call(name, args, row) ==
    LET text == <<"(">> \o Join(args, <<",">>) \o <<")">>
    IN PrimaryExpr(
         SymNode("TfCall", name \o text, row, row,
           <<Ident(name, row),
             SymNode("ListOfArgumentsParent", text, row, row,
               <<Punct("(", row)>>
                 \o Concat([k \in 1..Len(args) |->
                       (IF k > 1 THEN <<Punct(",", row)>> ELSE <<>>)
                         \o <<Primary(args[k], row)>>])
                 \o <<Punct(")", row)>>)>>))

\* lvalue op= expression
OpAssign(lv, op, expr, row) ==
    SymNode("OperatorAssignment", lv \o <<SP>> \o op \o <<SP>> \o expr.text, row, row,
            <<Wrap("VariableLvalue", Ident(lv, row)),
              SymNode("AssignmentOperator", op, row, row, <<>>),
              expr>>)

\* a statement of a function body: stmt ;
FunctionStatement(stmt, row) ==
    SymNode("FunctionStatementOrNull", stmt.text \o <<";">>, row, row,
            <<SymNode("Statement", stmt.text \o <<";">>, row, row, <<stmt, Punct(";", row)>>)>>)

T_lineComment  == <<"/", "/", SP, "c">>
T_inlineComment == <<"/", "*", "c", "*", "/">>
T_blockComment == <<"/", "*", SP, "c", NL, "d", SP, "*", "/">>

\* the body items of the model, by name, starting at row
Item(k, row) ==
    CASE k = "assign" ->
           FunctionStatement(OpAssign(<<"a">>, <<"=">>, PrimaryExpr(Literal(<<"1">>, row)), row), row)
      [] k = "opassign" ->   \* a  *=  b + 2 ;
           FunctionStatement(
               [OpAssign(<<"a">>, <<"*", "=">>,
                         BinaryExpr(PrimaryExpr(Ident(<<"b">>, row)), "+",
                                    PrimaryExpr(Literal(<<"2">>, row))), row)
                   EXCEPT !.text = <<"a", SP, SP, "*", "=", SP, SP, "b", SP, "+", SP, "2", SP>>],
               row)
      [] k = "return" ->
           FunctionStatement(
               SymNode("JumpStatement", T_return \o <<SP, "a">>, row, row,
                       <<Anon("return", T_return, row), PrimaryExpr(Ident(<<"a">>, row)),
                         Punct(";", row)>>), row)
      [] k = "returncomment" ->   \* return /*c*/ a; : the comment is a child of its own
           FunctionStatement(
               SymNode("JumpStatement", T_return \o <<SP>> \o T_inlineComment \o <<SP, "a">>, row, row,
                       <<Anon("return", T_return, row),
                         SymNode("Comment", T_inlineComment, row, row, <<>>),
                         PrimaryExpr(Ident(<<"a">>, row)), Punct(";", row)>>), row)
      [] k = "break" ->
           FunctionStatement(
               SymNode("JumpStatement", T_break, row, row,
                       <<Anon("break", T_break, row), Punct(";", row)>>), row)
      [] k = "call" ->
           FunctionStatement(
               OpAssign(<<"a">>, <<"=">>, Call(<<"f">>, <<<<"b">>, <<"2">>>>, row), row), row)
      [] k = "unary" ->   \* a = -b: an Expression of two children
           FunctionStatement(
               OpAssign(<<"a">>, <<"=">>,
                   SymNode("Expression", <<"-", "b">>, row, row,
                       <<SymNode("UnaryOperator", <<"-">>, row, row, <<>>),
                         Wrap("Primary", Ident(<<"b">>, row))>>), row), row)
      [] k = "badassign" ->   \* an OperatorAssignment that lost its expression
           FunctionStatement(
               SymNode("OperatorAssignment", <<"a", SP, "=">>, row, row,
                       <<Wrap("VariableLvalue", Ident(<<"a">>, row)),
                         SymNode("AssignmentOperator", <<"=">>, row, row, <<>>)>>), row)
      [] k = "null" ->
           SymNode("FunctionStatementOrNull", <<";">>, row, row, <<Punct(";", row)>>)
      [] k = "attrnull" ->   \* (* x *) ; : a FunctionStatementOrNull of two children
           SymNode("FunctionStatementOrNull", <<"x", ";">>, row, row,
                   <<Wrap("AttributeInstance", Ident(<<"x">>, row)), Punct(";", row)>>)
      [] k = "linecomment" -> SymNode("Comment", T_lineComment, row, row, <<>>)
      [] k = "blockcomment" -> SymNode("Comment", T_blockComment, row, row + 1, <<>>)

CommonKinds == {"assign", "linecomment", "blockcomment"}
ExoticKinds == {"opassign", "return", "returncomment", "break", "call", "unary", "badassign", "null", "attrnull"}

\* descriptions of body items: the kind k and the row difference d to the
\* end of what precedes it (the header's ";" for the first)
FirstDescs(kinds) == {[k |-> k, d |-> d] : k \in kinds, d \in {1, MaxRowGap}}
NextDescs(prev) ==
    {[k |-> k, d |-> d] : k \in CommonKinds,
                          d \in {IF prev.k = "linecomment" THEN 1 ELSE 0, 1, 2, MaxRowGap}}

RECURSIVE ItemSeqs(_)
ItemSeqs(n) ==
    IF n = 0 THEN {<<>>}
    ELSE IF n = 1 THEN {<<>>} \cup {<<x>> : x \in FirstDescs(CommonKinds)}
    ELSE LET S == ItemSeqs(n - 1)
         IN S \cup UNION {{Append(q, x) : x \in NextDescs(q[Len(q)])} :
                            q \in {r \in S : Len(r) = n - 1}}

RECURSIVE BuildItems(_, _)
BuildItems(descs, prevRow) ==
    IF Len(descs) = 0 THEN <<>>
    ELSE LET it == Item(Head(descs).k, prevRow + Head(descs).d)
         IN <<it>> \o BuildItems(Tail(descs), it.erow)

\* a port: int name, or name alone
Port(typed, name, row) ==
    SymNode("TfPortItem1", (IF typed THEN T_int \o <<SP>> ELSE <<>>) \o name, row, row,
            (IF typed THEN <<Wrap("DataTypeOrImplicit1", Wrap("DataType", IntType(row)))>> ELSE <<>>)
              \o <<Wrap("PortIdentifier", Ident(name, row))>>)

\* a port with a default value that is a unary expression: int name = -b
DefaultPort(name, row) ==
    SymNode("TfPortItem1", T_int \o <<SP>> \o name \o <<SP, "=", SP, "-", "b">>, row, row,
            <<Wrap("DataTypeOrImplicit1", Wrap("DataType", IntType(row))),
              Wrap("PortIdentifier", Ident(name, row)),
              Punct("=", row),
              SymNode("Expression", <<"-", "b">>, row, row,
                      <<Punct("-", row), Wrap("Primary", Ident(<<"b">>, row))>>)>>)

PortList(ports, row) ==
    SymNode("TfPortList", Join([i \in 1..Len(ports) |-> ports[i].text], <<",", SP>>), row, row,
            Concat([i \in 1..Len(ports) |->
                (IF i > 1 THEN <<Punct(",", row)>> ELSE <<>>) \o <<ports[i]>>]))

\* the row of the last of items, or row when there is none
LastRow(items, row) == IF Len(items) = 0 THEN row ELSE items[Len(items)].erow

\* function int name(ports); items endfunction, the header on row and
\* endfunction on endRow; head is what stands between the identifier and the
\* items
FunctionWith(name, head, items, row, endRow) ==
    SymNode("FunctionDeclaration", <<>>, row, endRow,
      <<Anon("function", T_function, row),
        SymNode("FunctionBodyDeclaration", <<>>, row, endRow,
          <<Wrap("FunctionDataTypeOrImplicit1", Wrap("DataType", IntType(row))),
            Wrap("FunctionIdentifier", Ident(name, row))>>
          \o head \o items
          \o <<Anon("endfunction", T_endfunction, endRow)>>)>>)

\* a function of the inputs: MaxRowGap - 1 blank lines before endfunction
Function(name, ports, descs, row) ==
    LET items == BuildItems(descs, row)
    IN FunctionWith(name,
                    <<Punct("(", row), PortList(ports, row), Punct(")", row), Punct(";", row)>>,
                    items, row, LastRow(items, row) + MaxRowGap)

ShortPorts(row) == <<Port(TRUE, <<"a">>, row)>>

\* class name; functions endclass
Class(name, fns, row) ==
    SymNode("ClassDeclaration", <<>>, row, row,
            <<Anon("class", T_class, row), Wrap("ClassIdentifier", Ident(name, row)),
              Punct(";", row)>>
            \o [i \in 1..Len(fns) |-> Wrap("ClassItem", Wrap("ClassMethod", fns[i]))]
            \o <<Anon("endclass", T_endclass, row)>>)

TopLevel(decl) ==
    IF Sym(decl) = "FunctionDeclaration"
    THEN Wrap("PackageOrGenerateItemDeclaration", decl) ELSE decl

SourceFile(decls) ==
    SymNode("SourceFile", <<>>, 0, 0, [i \in 1..Len(decls) |-> TopLevel(decls[i])])

----------------------------------------------------------------------------
(* The inputs of the model *)

T_f == <<"f">>
T_c == <<"c">>

\* function bodies: every sequence of common items, and each other item alone,
\* at the top level and in a class
BodyInputs ==
    {SourceFile(<<Function(T_f, ShortPorts(0), q, 0)>>) : q \in ItemSeqs(MaxItems)}
      \cup {SourceFile(<<Function(T_f, ShortPorts(0), <<x>>, 0)>>) : x \in FirstDescs(ExoticKinds)}
      \cup {SourceFile(<<Class(T_c, <<Function(T_f, ShortPorts(0), <<x>>, 0)>>, 0)>>) :
                x \in FirstDescs(CommonKinds \cup ExoticKinds)}

\* port lists around the width budget: "function int f" is 14 columns, one
\* typed port of length n gives a candidate of n + 7, a second untyped one
\* after "int a" gives n + 10
WrapPorts ==
    {<<Port(TRUE, Name("p", n), 0)>> :
        n \in {WidthBudget - 25, WidthBudget - 24, WidthBudget - 21, WidthBudget - 20}}
      \cup {<<Port(TRUE, <<"a">>, 0), Port(FALSE, Name("p", n), 0)>> :
        n \in {WidthBudget - 24, WidthBudget - 23}}

WrapInputs ==
    UNION {{SourceFile(<<Function(T_f, ps, <<>>, 0)>>),
            SourceFile(<<Class(T_c, <<Function(T_f, ps, <<>>, 0)>>, 0)>>)} : ps \in WrapPorts}

\* declarations: a function, or a class of no, one or two functions
DeclKinds == {[c |-> FALSE, n |-> 0]} \cup {[c |-> TRUE, n |-> n] : n \in {0, 1, 2}}

Decl(d) ==
    IF d.c
    THEN Class(T_c, [i \in 1..d.n |-> Function(T_f, ShortPorts(0), <<>>, 0)], 0)
    ELSE Function(T_f, ShortPorts(0), <<>>, 0)

RECURSIVE DeclSeqs(_)
DeclSeqs(n) ==
    IF n = 0 THEN {<<>>}
    ELSE LET S == DeclSeqs(n - 1)
         IN S \cup UNION {{Append(q, x) : x \in DeclKinds} : q \in {r \in S : Len(r) = n - 1}}

DeclInputs ==
    {SourceFile([i \in 1..Len(q) |-> Decl(q[i])]) : q \in DeclSeqs(MaxDecls) \ {<<>>}}

\* constructs without a rule, error recovery, and declarations of other shapes
MiscInputs ==
    LET body == Function(T_f, ShortPorts(0), <<>>, 0).kids[2]
        comment == SymNode("Comment", T_lineComment, 0, 0, <<>>)
    IN {SourceFile(<<ErrorNode(<<"m", ";", "1">>, 0,
                       <<Ident(<<"m">>, 0), Punct(";", 0), IntType(0), Literal(<<"1">>, 0),
                         comment>>)>>),
        SourceFile(<<SymNode("ModuleDeclaration", <<>>, 0, 1,
                       <<Anon("module", <<"m", "o", "d">>, 0),
                         Wrap("ModuleIdentifier", Ident(<<"m">>, 0)), Punct(";", 0),
                         Anon("endmodule", <<"e", "n", "d">>, 1)>>)>>),
        SourceFile(<<comment, Function(T_f, ShortPorts(1), <<>>, 1)>>),
        \* function int f; a = 1; endfunction
        SourceFile(<<FunctionWith(T_f, <<Punct(";", 0)>>,
                                  BuildItems(<<[k |-> "assign", d |-> 1]>>, 0), 0, 2)>>),
        SourceFile(<<FunctionWith(T_f, <<Punct(";", 0)>>, <<>>, 0, 1)>>),
        \* function int f // c (a); endfunction
        SourceFile(<<FunctionWith(T_f,
                        <<comment, Punct("(", 1), PortList(<<Port(FALSE, <<"a">>, 1)>>, 1),
                          Punct(")", 1), Punct(";", 1)>>,
                        BuildItems(<<[k |-> "assign", d |-> MaxRowGap]>>, 1), 0,
                        MaxRowGap + 2)>>),
        \* function // c int f(int a); endfunction: three children
        SourceFile(<<SymNode("FunctionDeclaration", <<>>, 0, 1,
                       <<Anon("function", T_function, 0), comment, body>>)>>),
        \* function int f(int a, int b = -b); endfunction
        SourceFile(<<Function(T_f, <<Port(TRUE, <<"a">>, 0), DefaultPort(<<"b">>, 0)>>, <<>>, 0)>>),
        \* a declaration whose second child is not the body
        SourceFile(<<Function(T_f, ShortPorts(0), <<>>, 0),
                     SymNode("FunctionDeclaration", <<>>, 0, 1,
                       <<Anon("function", T_function, 0), comment>>)>>)}

Inputs == BodyInputs \cup WrapInputs \cup DeclInputs \cup MiscInputs

----------------------------------------------------------------------------
(* The parser, on the texts format() writes for functions and classes.      *)
(* parse() is tree-sitter with the vendored SystemVerilog grammar; this is  *)
(* its result on the declarations, statements and comments of the model,    *)
(* one construct per line as format() lays them out. Rows are counted from  *)
(* 0; a comment's text is its bytes from the opening to the closing mark,   *)
(* line breaks and the spaces after them included. ok is FALSE on any       *)
(* other text.                                                              *)

\* the lines of text, without the empty piece after a final line break
Lines(text) ==
    LET ls == Split(text, NL)
    IN IF Len(ls[Len(ls)]) = 0 THEN SubSeq(ls, 1, Len(ls) - 1) ELSE ls

IsWord(t) == Len(t) > 0 /\ \A i \in 1..Len(t) : t[i] \notin {"(", ")", ",", ";", SP, NL, "/"}

\* an expression: a call, a primary, or primary operator primary
ParseExpression(t, row) ==
    LET open == Find(t, "(", 1)
        args == Split(SubSeq(t, open + 1, Len(t) - 1), ",")
        ts == Split(t, SP)
    IN IF open > 1 /\ EndsWith(t, <<")">>)
       THEN [ok |-> /\ IsWord(SubSeq(t, 1, open - 1))
                    /\ \A k \in 1..Len(args) : IsWord(Strip(args[k])),
             node |-> Call(SubSeq(t, 1, open - 1), [k \in 1..Len(args) |-> Strip(args[k])], row)]
       ELSE IF Len(ts) = 1 /\ IsWord(ts[1])
       THEN [ok |-> TRUE, node |-> Primary(ts[1], row)]
       ELSE IF Len(ts) = 3 /\ IsWord(ts[1]) /\ Len(ts[2]) = 1 /\ IsWord(ts[3])
       THEN [ok |-> TRUE,
             node |-> BinaryExpr(Primary(ts[1], row), ts[2][1], Primary(ts[3], row))]
       ELSE [ok |-> FALSE, node |-> <<>>]

\* F(v), with v computed once
Bind(v, F(_)) == CHOOSE y \in {F(x) : x \in {v}} : TRUE

NoNode == [ok |-> FALSE, node |-> <<>>]
NoNodes(i) == [ok |-> FALSE, nodes |-> <<>>, next |-> i]
Prepend(node, rest) == [rest EXCEPT !.nodes = <<node>> \o @]

\* a statement line without its indentation
ParseStatement(line, row) ==
    LET ts == Split(SubSeq(line, 1, Len(line) - 1), SP)
    IN IF line = <<";">>
       THEN [ok |-> TRUE,
             node |-> SymNode("FunctionStatementOrNull", line, row, row, <<Punct(";", row)>>)]
       ELSE IF line = T_break \o <<";">>
       THEN [ok |-> TRUE,
             node |-> FunctionStatement(
                          SymNode("JumpStatement", T_break, row, row,
                                  <<Anon("break", T_break, row), Punct(";", row)>>), row)]
       ELSE IF ts[1] = T_return
       THEN Bind(ParseExpression(SubSeq(line, Len(T_return) + 2, Len(line) - 1), row), LAMBDA r :
                IF r.ok
                THEN [ok |-> TRUE,
                      node |-> FunctionStatement(
                                   SymNode("JumpStatement", T_return \o <<SP>> \o r.node.text,
                                           row, row,
                                           <<Anon("return", T_return, row), r.node,
                                             Punct(";", row)>>), row)]
                ELSE NoNode)
       ELSE IF Len(ts) >= 3 /\ IsWord(ts[1]) /\ Len(ts[2]) > 0 /\ ts[2][Len(ts[2])] = "="
       THEN Bind(ParseExpression(SubSeq(line, Len(ts[1]) + Len(ts[2]) + 3, Len(line) - 1), row),
                 LAMBDA e :
                IF e.ok
                THEN [ok |-> TRUE,
                      node |-> FunctionStatement(OpAssign(ts[1], ts[2], e.node, row), row)]
                ELSE NoNode)
       ELSE NoNode

\* the index of the first line at or after i that ends the block comment, or 0
CommentEnd(lines, i) ==
    LET ends == {k \in i..Len(lines) : EndsWith(lines[k], <<"*", "/">>)}
    IN IF ends = {} THEN 0 ELSE CHOOSE k \in ends : \A j \in ends : k <= j

\* the statements and comments from line i to endfunction
RECURSIVE ParseItems(_, _)
ParseItems(lines, i) ==
    IF i > Len(lines) THEN NoNodes(i)
    ELSE Bind(Strip(lines[i]), LAMBDA line :
         IF Len(line) = 0 THEN ParseItems(lines, i + 1)
         ELSE IF line = T_endfunction THEN [ok |-> TRUE, nodes |-> <<>>, next |-> i + 1]
         ELSE IF StartsWith(line, <<"/", "/">>)
         THEN Prepend(SymNode("Comment", line, i - 1, i - 1, <<>>), ParseItems(lines, i + 1))
         ELSE IF StartsWith(line, <<"/", "*">>)
         THEN Bind(CommentEnd(lines, i), LAMBDA k :
                IF k = 0 THEN NoNodes(i)
                ELSE Prepend(SymNode("Comment",
                                     Join(<<line>> \o SubSeq(lines, i + 1, k), <<NL>>),
                                     i - 1, k - 1, <<>>),
                             ParseItems(lines, k + 1)))
         ELSE IF EndsWith(line, <<";">>)
         THEN Bind(ParseStatement(line, i - 1), LAMBDA st :
                IF st.ok THEN Prepend(st.node, ParseItems(lines, i + 1)) ELSE NoNodes(i))
         ELSE NoNodes(i))

\* a port: int name, or name
ParsePort(t, row) ==
    IF StartsWith(t, T_int \o <<SP>>)
    THEN Port(TRUE, SubSeq(t, 5, Len(t)), row)
    ELSE Port(FALSE, t, row)

PortOk(t) ==
    IF StartsWith(t, T_int \o <<SP>>) THEN IsWord(SubSeq(t, 5, Len(t))) ELSE IsWord(t)

\* the ports on the lines after a header that ends in "(", up to ");"
RECURSIVE ParsePortLines(_, _)
ParsePortLines(lines, i) ==
    IF i > Len(lines) THEN NoNodes(i)
    ELSE Bind(Strip(lines[i]), LAMBDA line :
         LET t == IF EndsWith(line, <<",">>) THEN SubSeq(line, 1, Len(line) - 1) ELSE line
         IN IF line = <<")", ";">> THEN [ok |-> TRUE, nodes |-> <<>>, next |-> i + 1]
            ELSE IF PortOk(t) THEN Prepend(ParsePort(t, i - 1), ParsePortLines(lines, i + 1))
            ELSE NoNodes(i))

\* the ports of a header line: those between its parentheses, or those on
\* the lines that follow it
ParsePorts(lines, i, line, open) ==
    IF EndsWith(line, <<")", ";">>)
    THEN LET inner == SubSeq(line, open + 1, Len(line) - 2)
             pieces == IF Len(inner) = 0 THEN <<>> ELSE Split(inner, ",")
         IN Bind([k \in 1..Len(pieces) |-> Strip(pieces[k])], LAMBDA texts :
                [ok |-> \A k \in 1..Len(texts) : PortOk(texts[k]),
                 nodes |-> [k \in 1..Len(texts) |-> ParsePort(texts[k], i - 1)],
                 next |-> i + 1])
    ELSE ParsePortLines(lines, i + 1)

\* function int name(ports); ... endfunction, from line i
ParseFunction(lines, i) ==
    Bind(Strip(lines[i]), LAMBDA line :
    Bind(Find(line, "(", 1), LAMBDA open :
        IF ~(/\ StartsWith(line, T_function \o <<SP>> \o T_int \o <<SP>>)
             /\ open > 14
             /\ IsWord(SubSeq(line, 14, open - 1))
             /\ (EndsWith(line, <<")", ";">>) \/ open = Len(line)))
        THEN [ok |-> FALSE, node |-> <<>>, next |-> i]
        ELSE Bind(ParsePorts(lines, i, line, open), LAMBDA ports :
             IF ~ports.ok \/ Len(ports.nodes) = 0
             THEN [ok |-> FALSE, node |-> <<>>, next |-> i]
             ELSE Bind(ParseItems(lines, ports.next), LAMBDA items :
                  IF ~items.ok
                  THEN [ok |-> FALSE, node |-> <<>>, next |-> i]
                  ELSE [ok |-> TRUE,
                        node |-> FunctionWith(SubSeq(line, 14, open - 1),
                                     <<Punct("(", i - 1), PortList(ports.nodes, i - 1),
                                       Punct(")", ports.next - 2), Punct(";", ports.next - 2)>>,
                                     items.nodes, i - 1, items.next - 2),
                        next |-> items.next]))))

\* the declarations from line i to the end of the text or to endclass
RECURSIVE ParseDeclarations(_, _, _)
ParseDeclarations(lines, i, inClass) ==
    IF i > Len(lines) THEN [ok |-> ~inClass, nodes |-> <<>>, next |-> i]
    ELSE Bind(Strip(lines[i]), LAMBDA line :
         IF Len(line) = 0 THEN ParseDeclarations(lines, i + 1, inClass)
         ELSE IF line = T_endclass
         THEN IF inClass THEN [ok |-> TRUE, nodes |-> <<>>, next |-> i + 1] ELSE NoNodes(i)
         ELSE IF StartsWith(line, T_function \o <<SP>>)
         THEN Bind(ParseFunction(lines, i), LAMBDA fn :
                IF fn.ok THEN Prepend(fn.node, ParseDeclarations(lines, fn.next, inClass))
                ELSE NoNodes(i))
         ELSE IF StartsWith(line, T_class \o <<SP>>) /\ EndsWith(line, <<";">>) /\ ~inClass
         THEN Bind(ParseDeclarations(lines, i + 1, TRUE), LAMBDA items :
                IF IsWord(SubSeq(line, 7, Len(line) - 1)) /\ items.ok /\ Len(items.nodes) > 0
                THEN Prepend(Class(SubSeq(line, 7, Len(line) - 1), items.nodes, i - 1),
                             ParseDeclarations(lines, items.next, inClass))
                ELSE NoNodes(i))
         ELSE NoNodes(i))

\* parse(): the tree of text
Parse(text) ==
    IF Len(text) = 0 THEN [ok |-> FALSE, tree |-> <<>>]
    ELSE Bind(Lines(text), LAMBDA lines :
         Bind(ParseDeclarations(lines, 1, FALSE), LAMBDA r :
            [ok |-> r.ok, tree |-> IF r.ok THEN SourceFile(r.nodes) ELSE <<>>]))

\* the formatter is run on its own output: parse, then format again
Reformat ==
    /\ result = "ok" /\ pass = 1
    /\ \E r \in {Parse(sink)} : r.ok /\ tree' = r.tree
    /\ pass' = 2
    /\ first' = sink
    /\ sink' = <<>>
    /\ bufs' = <<NewBuffer>>
    /\ stack' = <<TNode(<<>>)>>
    /\ log' = <<>>
    /\ result' = "run"
    /\ UNCHANGED <<frags, failed>>

----------------------------------------------------------------------------
(* The specification *)

Init ==
    /\ tree \in Inputs
    /\ pass = 1
    /\ first = <<>>
    /\ bufs = <<NewBuffer>>
    /\ frags = <<>>
    /\ stack = <<TNode(<<>>)>>
    /\ log = <<>>
    /\ failed = NoFailure
    /\ result = "run"
    /\ sink = <<>>

Next ==
    \/ FormatFunctionDeclaration
    \/ FunctionBodyComment
    \/ FormatFunctionStatementOrNull
    \/ FormatClassDeclaration
    \/ FormatExpression
    \/ FormatJumpStatement
    \/ FormatOperatorAssignment
    \/ FormatNodeText
    \/ FormatListOfArguments
    \/ FormatChildren
    \/ FormatTfPortList
    \/ ToLineBuffer
    \/ ToLineBufferReturn
    \/ CommitTfPortList
    \/ CallPushStr
    \/ CallPushStrAbort
    \/ CallIncrementIndent
    \/ CallDecrementIndent
    \/ CallDecrementIndentPanic
    \/ CallMaybeBlankLine
    \/ Return
    \/ WriteSink
    \/ WriteSinkFails
    \/ Reformat

Spec == Init /\ [][Next]_vars

----------------------------------------------------------------------------
(* The Buffer on its own, driven line by line as the Formatter drives it   *)
(* around declarations: every increment_indent, decrement_indent and       *)
(* maybe_blank_line of lib.rs follows a push_str on the same buffer        *)
(* (lines 329-344 and 359-394), and maybe_blank_line follows a push_str    *)
(* that ends the line.  log is the sequence of the calls made.             *)

T_line == <<"a", NL>>

BufferCall(name, b) ==
    /\ bufs' = <<b>>
    /\ log' = Append(log, name)
    /\ UNCHANGED <<tree, pass, first, frags, stack, failed, result, sink>>

\* buffer.push_str("a\n")
BufferPushStr ==
    /\ Len(log) < MaxCalls
    /\ BufferCall("push_str", PushStr(bufs[1], T_line))

\* buffer.increment_indent()
BufferIncrementIndent ==
    /\ Len(log) < MaxCalls /\ Len(bufs[1].content) > 0
    /\ BufferCall("increment_indent", IncrementIndent(bufs[1]))

\* buffer.decrement_indent(), balanced
BufferDecrementIndent ==
    /\ Len(log) < MaxCalls /\ Len(bufs[1].content) > 0 /\ bufs[1].indent >= IndentUnit
    /\ BufferCall("decrement_indent", DecrementIndent(bufs[1]))

\* buffer.maybe_blank_line()
BufferMaybeBlankLine ==
    /\ Len(log) < MaxCalls /\ Len(bufs[1].content) > 0
    /\ BufferCall("maybe_blank_line", MaybeBlankLine(bufs[1]))

InitBuffer ==
    /\ tree = SourceFile(<<>>)
    /\ pass = 1
    /\ first = <<>>
    /\ bufs = <<NewBuffer>>
    /\ frags = <<>>
    /\ stack = <<>>
    /\ log = <<>>
    /\ failed = NoFailure
    /\ result = "run"
    /\ sink = <<>>

NextBuffer ==
    \/ BufferPushStr
    \/ BufferIncrementIndent
    \/ BufferDecrementIndent
    \/ BufferMaybeBlankLine

SpecBuffer == InitBuffer /\ [][NextBuffer]_vars

----------------------------------------------------------------------------
(* debug_walk: the diagnostic dump.  stack holds the one task of the walk,  *)
(* whose path is the cursor and whose indent is the indent counter; log is  *)
(* the sequence of the lines written; the sink may refuse any write.        *)

TWalk(op, p, indent) == [Task(op, p, 0, <<>>) EXCEPT !.indent = indent]

\* cursor.goto_next_sibling() succeeds at path p
HasNextSibling(p) == Len(p) > 0 /\ Last(p) < ChildCount(NodeAt(tree, Parent(p)))
NextSibling(p) == Parent(p) \o <<Last(p) + 1>>

\* lines 179-191: the indent, the kind or "anonymous", and the text of a leaf;
\* path is ghost (the trees of the model have no field names)
DebugLine(p, indent) ==
    LET node == NodeAt(tree, p)
    IN [path |-> p, indent |-> indent,
        kind |-> IF node.named THEN node.kind ELSE "anonymous",
        leaf |-> ChildCount(node) = 0,
        text |-> IF ChildCount(node) = 0 THEN node.text ELSE <<>>]

\* the indent counter left as it is on the way up
KeepIndent(indent) == indent
\* line 202: indent -= 4
AscendIndent(indent) == indent - IndentUnit

\* one turn of the outer loop, lines 178-196: write the line of the node,
\* then go to the first child, or to the next sibling, or start the way up
DebugWalkNode ==
    /\ result = "run" /\ Len(stack) = 1 /\ Top.op = "walk"
    /\ LET p == Top.path
           indent == Top.indent
       IN /\ log' = Append(log, DebugLine(p, indent))
          /\ stack' = <<IF ChildCount(NodeAt(tree, p)) > 0
                        THEN TWalk("walk", p \o <<1>>, indent + IndentUnit)
                        ELSE IF HasNextSibling(p)
                        THEN TWalk("walk", NextSibling(p), indent)
                        ELSE TWalk("ascend", p, indent)>>
    /\ UNCHANGED <<tree, pass, first, bufs, frags, failed, result, sink>>

\* one turn of the inner loop, lines 197-207, where goto_parent succeeds
DebugWalkAscend ==
    /\ result = "run" /\ Len(stack) = 1 /\ Top.op = "ascend"
    /\ Len(Top.path) > 0
    /\ LET p == Parent(Top.path)
           indent == AscendIndent(Top.indent)
       IN stack' = <<IF HasNextSibling(p)
                     THEN TWalk("walk", NextSibling(p), indent)
                     ELSE TWalk("ascend", p, indent)>>
    /\ UNCHANGED <<tree, pass, first, bufs, frags, log, failed, result, sink>>

\* lines 198-200: goto_parent fails at the root, return Ok(())
DebugWalkReturn ==
    /\ result = "run" /\ Len(stack) = 1 /\ Top.op = "ascend"
    /\ Len(Top.path) = 0
    /\ result' = "ok"
    /\ UNCHANGED <<tree, pass, first, bufs, frags, stack, log, failed, sink>>

\* a write!/writeln! of lines 179-191 fails: the '?' returns the error
DebugWriteFails ==
    /\ result = "run" /\ Len(stack) = 1 /\ Top.op = "walk"
    /\ result' = "ioerr"
    /\ UNCHANGED <<tree, pass, first, bufs, frags, stack, log, failed, sink>>

\* the trees walked: those of the declarations and of the other shapes, and
\* the tree of the empty source
DebugInputs == DeclInputs \cup MiscInputs \cup {SourceFile(<<>>)}

\* debug(): debug_walk(f, 0, &mut tree.walk())
InitDebug ==
    /\ tree \in DebugInputs
    /\ pass = 1
    /\ first = <<>>
    /\ bufs = <<NewBuffer>>
    /\ frags = <<>>
    /\ stack = <<TWalk("walk", <<>>, 0)>>
    /\ log = <<>>
    /\ failed = NoFailure
    /\ result = "run"
    /\ sink = <<>>

NextDebug ==
    \/ DebugWalkNode
    \/ DebugWalkAscend
    \/ DebugWalkReturn
    \/ DebugWriteFails

\* the loop runs until it returns: one thread, no waiting
SpecDebug == InitDebug /\ [][NextDebug]_vars /\ WF_vars(NextDebug)

----------------------------------------------------------------------------
(* Properties *)

\* the returned calls
Entries == {log[i] : i \in 1..Len(log)}

NodeOf(e) == NodeAt(tree, e.path)

\* the number of line breaks s starts with
RECURSIVE LeadingNLs(_)
LeadingNLs(s) == IF Len(s) > 0 /\ Head(s) = NL THEN 1 + LeadingNLs(Tail(s)) ELSE 0

\* C10: in every Buffer, line_length is the number of characters of content
\* after its last line break (or since its start), the indentation spaces the
\* Buffer inserts itself included.
C10_ColumnInvariant ==
    \A i \in 1..Len(bufs) : bufs[i].line_length = Len(LastLine(bufs[i].content))

\* C1: when the text format() wrote parses and format() succeeds on it again,
\* the second text is the first, byte for byte.
C1_Idempotence == (pass = 2 /\ result = "ok") => sink = first

\* a line of the output that is a function header with its port list
IsSingleLineHeader(line) ==
    StartsWith(Strip(line), T_function \o <<SP>>) /\ EndsWith(line, <<")", ";">>)

\* C2: format_tf_port_list commits the single-line candidate exactly when the
\* column of the output line plus the candidate's length is at most 80, so
\* that no single-line function header of the output is longer than 80
\* columns.
C2_WrapBoundary ==
    /\ (Running /\ Top.op = "commit") =>
          \A single_line \in {SingleLine(frags[Len(frags)])} :
              FitsOnLine(Cur, single_line)
                <=> Len(LastLine(Cur.content)) + Len(single_line) <= WidthBudget
    /\ result = "ok" =>
          \A ls \in {Lines(sink)} :
              \A k \in 1..Len(ls) : IsSingleLineHeader(ls[k]) => Len(ls[k]) <= WidthBudget

\* the symbols of the body items format_function_declaration renders
ItemSymbols == {"FunctionStatementOrNull", "Comment"}

\* the returned calls on the statements and comments of function bodies
ItemEntries ==
    {e \in Entries : /\ Len(e.path) > 0
                     /\ e.rule \in {"format_function_statement_or_null", "comment"}
                     /\ Sym(NodeOf(e)) \in ItemSymbols
                     /\ Sym(NodeAt(tree, Parent(e.path))) = "FunctionBodyDeclaration"}

\* e1 and e2 are the calls on two consecutive items of one function body
ConsecutiveItems(e1, e2) ==
    /\ Parent(e1.path) = Parent(e2.path)
    /\ Last(e2.path) = Last(e1.path) + 1

\* the start row of the later item minus the end row of the earlier
RowDifference(e1, e2) == NodeOf(e2).srow - NodeOf(e1).erow

\* C3: between two consecutive statements or comments of a function body the
\* output has no blank line when their row difference is 0 or 1, and exactly
\* one blank line when it is 2 or more.
C3_BlankLineNormalization ==
    \A e1, e2 \in ItemEntries :
        ConsecutiveItems(e1, e2) =>
            /\ e1.to = e2.from
            /\ EndsWithNL(e1.text)
            /\ LeadingNLs(e2.text) = (IF RowDifference(e1, e2) >= 2 THEN 1 ELSE 0)

\* format() succeeded on two items that MaxRowGap - 1 blank lines separate in
\* the source: one blank line separates them in the output
C3_Witness ==
    /\ result = "ok" /\ pass = 1
    /\ \E e1, e2 \in ItemEntries :
           /\ ConsecutiveItems(e1, e2)
           /\ RowDifference(e1, e2) = MaxRowGap
           /\ LeadingNLs(e2.text) = 1
           /\ sink = SubSeq(sink, 1, e1.to) \o <<NL>> \o SubSeq(sink, e1.to + 2, Len(sink))

\* a line of the output that opens a scope: a function header up to its ");"
\* or a class header
IsOpener(line) ==
    \A t \in {Strip(line)} :
        \/ StartsWith(t, T_function \o <<SP>>) /\ EndsWith(t, <<")", ";">>)
        \/ t = <<")", ";">>
        \/ StartsWith(t, T_class \o <<SP>>) /\ EndsWith(t, <<";">>)

\* a line of the output that is a closing keyword
IsCloser(line) == Strip(line) \in {T_endfunction, T_endclass}

IsBlank(line) == Len(Strip(line)) = 0

\* C4: in the output of format() the line after a scope opener is not blank
\* and the line before a closing keyword is not blank.
C4_ScopeBoundaries ==
    result = "ok" =>
        \A ls \in {Lines(sink)} :
            \A k \in 1..(Len(ls) - 1) :
                /\ IsOpener(ls[k]) => ~IsBlank(ls[k + 1])
                /\ IsCloser(ls[k + 1]) => ~IsBlank(ls[k])

\* format() succeeded on a class whose function has blank lines after its
\* header and before endfunction in the source
C4_Witness ==
    /\ result = "ok" /\ pass = 1
    /\ tree = SourceFile(<<Class(T_c, <<Function(T_f, ShortPorts(0),
                                          <<[k |-> "assign", d |-> MaxRowGap]>>, 0)>>, 0)>>)
    /\ \A ls \in {Lines(sink)} :
           /\ Len(ls) = 5
           /\ IsOpener(ls[1]) /\ IsOpener(ls[2]) /\ IsCloser(ls[4]) /\ IsCloser(ls[5])

\* the pending-blank-line machine of the render buffer run over the calls
\* made: idle -> pending on a request, pending -> idle on the next line
\* written (which the one blank line precedes) or on an indentation change
\* (which discards it)
PendingMachine(calls) ==
    LET F[i \in 0..Len(calls)] ==
            IF i = 0 THEN [out |-> <<>>, indent |-> 0, pending |-> FALSE]
            ELSE LET m == F[i - 1]
                 IN CASE calls[i] = "push_str" ->
                           [m EXCEPT !.out = @ \o (IF m.pending THEN <<NL>> ELSE <<>>)
                                               \o Spaces(m.indent) \o T_line,
                                     !.pending = FALSE]
                      [] calls[i] = "increment_indent" ->
                           [m EXCEPT !.indent = @ + IndentUnit, !.pending = FALSE]
                      [] calls[i] = "decrement_indent" ->
                           [m EXCEPT !.indent = @ - IndentUnit, !.pending = FALSE]
                      [] calls[i] = "maybe_blank_line" ->
                           [m EXCEPT !.pending = TRUE]
    IN F[Len(calls)]

EntryAt(p) == CHOOSE c \in Entries : c.path = p
HasEntry(p) == \E c \in Entries : c.path = p

\* the returned calls of format_children
FallbackEntries == {e \in Entries : e.rule = "format_children"}

\* the symbols of the rules that can fail with a structural mismatch
EnsuringSymbols ==
    {"FunctionDeclaration", "FunctionStatementOrNull", "Expression", "OperatorAssignment"}

C7_UnknownConstruct ==
    /\ \A e \in FallbackEntries :
           \A n \in {NodeOf(e)} :
               /\ \A k \in 1..Len(n.kids) : HasEntry(e.path \o <<k>>)
               /\ \A k \in 1..Len(n.kids) :
                      ~n.kids[k].named => EntryAt(e.path \o <<k>>).text = <<>>
               /\ e.text = Concat([k \in 1..Len(NamedChildren(n)) |->
                                      EntryAt(e.path \o <<NamedChildren(n)[k]>>).text])
    /\ failed # NoFailure => failed.sym \in EnsuringSymbols

\* format() succeeded on a node of unknown kind with named and anonymous
\* children, and wrote the text of the named ones
C7_Witness ==
    /\ result = "ok"
    /\ \E e \in FallbackEntries :
           \A n \in {NodeOf(e)} :
               /\ Sym(n) = "Undefined" /\ n.named
               /\ Len(NamedChildren(n)) > 1 /\ Len(NamedChildren(n)) < Len(n.kids)
               /\ Len(e.text) > 0
               /\ sink = e.text

\* the returned calls of format_operator_assignment
AssignmentEntries == {e \in Entries : e.rule = "format_operator_assignment"}

\* the node at path p is all that the node at path q above it holds: every
\* node between them has no rule of its own and one named child
IsWholeOf(p, q) ==
    \A j \in Len(q)..(Len(p) - 1) :
        \A n \in {NodeAt(tree, SubSeq(p, 1, j))} :
            /\ j > Len(q) => Sym(n) \notin RuledSymbols
            /\ NamedChildren(n) = <<p[j + 1]>>

\* the returned calls of format_function_statement_or_null on the statements
\* that the node at path p is the whole of
StatementsAround(p) ==
    {st \in Entries : /\ st.rule = "format_function_statement_or_null"
                      /\ Len(st.path) < Len(p)
                      /\ SubSeq(p, 1, Len(st.path)) = st.path
                      /\ IsWholeOf(p, st.path)}

Tokens(n) == IF ChildCount(n) = 0 THEN <<n.text>> ELSE CollectTerminals(n)

\* the index of the first occurrence of t in s at or after i, or 0
FindText(s, t, i) ==
    LET hits == {j \in i..(Len(s) - Len(t) + 1) : SubSeq(s, j, j + Len(t) - 1) = t}
    IN IF hits = {} THEN 0 ELSE CHOOSE j \in hits : \A k \in hits : j <= k

\* the texts ts occur in s from i on, one after the other
RECURSIVE InOrder(_, _, _)
InOrder(ts, s, i) ==
    IF Len(ts) = 0 THEN TRUE
    ELSE \E j \in {FindText(s, Head(ts), i)} :
             j > 0 /\ InOrder(Tail(ts), s, j + Len(Head(ts)))

\* C9 as the specification states it: whatever format_children renders, every
\* source token of the node's subtree is in the output, in source order.
C9_NoDroppedContent ==
    \A e \in FallbackEntries : InOrder(Tokens(NodeOf(e)), e.text, 1)

\* what the nodes with a rule of format_node rendered below path p, in
\* order: the rendering of the node at p when it has a rule, else that of its
\* children
RECURSIVE RuledText(_)
RuledText(p) ==
    IF Sym(NodeAt(tree, p)) \in RuledSymbols
    THEN EntryAt(p).text
    ELSE Concat([k \in 1..Len(NodeAt(tree, p).kids) |-> RuledText(p \o <<k>>)])

\* C9 as the code has it: what format_children renders is the output of the
\* rules of format_node on the nearest descendants that have one, in source
\* order; a token that is under no such descendant (an anonymous keyword or
\* punctuation, a named leaf without a rule) is left out.
C9_RuledContentOnly ==
    \A e \in FallbackEntries :
        /\ e.text = RuledText(e.path)
        /\ ChildCount(NodeOf(e)) = 0 => e.text = <<>>

\* format() succeeded on a statement whose ";" format_children left out
\* while it rendered the assignment beside it
C9_Witness ==
    /\ result = "ok"
    /\ \E e \in FallbackEntries :
           \A n \in {NodeOf(e)} :
               /\ Sym(n) = "Statement"
               /\ ChildCount(n) = 2 /\ n.kids[2].text = <<";">>
               /\ Len(e.text) > 0
               /\ \A i \in 1..Len(e.text) : e.text[i] # ";"

\* the rules that bracket a lexical scope with increment_indent and
\* decrement_indent
ScopeRules ==
    {"format_class_declaration", "format_function_declaration", "format_tf_port_list"}

\* C11: in every state of a render call the indent of every Buffer is a
\* non-negative multiple of 4, decrement_indent is only called after an
\* increment_indent it matches, the rules of classes, functions and port
\* lists return with the indent they were entered with, and the indent is 0
\* when format() has written its output.
C11_IndentBalance ==
    /\ \A i \in 1..Len(bufs) :
           bufs[i].indent >= 0 /\ bufs[i].indent % IndentUnit = 0
    /\ (Running /\ Top.op = "dec") => Cur.indent >= IndentUnit
    /\ (Running /\ Top.op = "ret" /\ Top.rule \in ScopeRules) => Cur.indent = Top.indent
    /\ result = "ok" => bufs[1].indent = 0

\* C11 but for the classes that have no class item
C11_BalanceWithItems ==
    (\A d \in 1..Len(tree.kids) :
        \A n \in {tree.kids[d]} :
            (Sym(n) = "ClassDeclaration") => \E k \in 1..Len(n.kids) : Sym(n.kids[k]) = "ClassItem")
      => C11_IndentBalance

\* format_tf_port_list is measuring: between its entry and the return of the
\* last to_line_buffer
Measuring == Running /\ (Len(bufs) > 1 \/ Top.op \in {"ports", "scratch"})

JumpEntries == {e \in Entries : e.rule = "format_jump_statement"}

\* the children of node n that are expressions
ExpressionsOf(n) == {k \in 1..Len(n.kids) : Sym(n.kids[k]) = "Expression"}

\* C13: a JumpStatement renders as the text of its first child, followed,
\* when it has three children or more, by one space and the rendering of its
\* expression, and by nothing when it has fewer; its expression is never left
\* out.
C13_JumpStatement ==
    \A e \in JumpEntries :
        \A n \in {NodeOf(e)} :
            /\ ChildCount(n) >= 3 =>
                   \E k \in ExpressionsOf(n) :
                       /\ HasEntry(e.path \o <<k>>)
                       /\ Strip(e.text) = n.kids[1].text \o <<SP>> \o EntryAt(e.path \o <<k>>).text
            /\ ChildCount(n) < 3 => Strip(e.text) = n.kids[1].text
            /\ \A k \in ExpressionsOf(n) : HasEntry(e.path \o <<k>>)

\* C13 for the statements of at most three children
C13_ThreeChildren ==
    \A e \in JumpEntries :
        \A n \in {NodeOf(e)} :
            ChildCount(n) <= 3 =>
                /\ ChildCount(n) = 3 =>
                       /\ ExpressionsOf(n) = {2} /\ HasEntry(e.path \o <<2>>)
                       /\ Strip(e.text) = n.kids[1].text \o <<SP>> \o EntryAt(e.path \o <<2>>).text
                /\ ChildCount(n) < 3 => Strip(e.text) = n.kids[1].text

\* the paths of the nodes of the subtree of n at path p, in depth-first pre-order
RECURSIVE Preorder(_, _)
Preorder(n, p) ==
    <<p>> \o Concat([k \in 1..Len(n.kids) |-> Preorder(n.kids[k], p \o <<k>>)])

\* the lines written so far are the lines of the first nodes in pre-order,
\* each indented by 4 times its depth, and the indent counter is 4 times the
\* depth of the cursor
DebugWalkInvariant ==
    \A order \in {Preorder(tree, <<>>)} :
        /\ Top.indent >= 0
        /\ Top.indent = IndentUnit * Len(Top.path)
        /\ Len(log) <= Len(order)
        /\ \A i \in 1..Len(log) : log[i] = DebugLine(order[i], IndentUnit * Len(order[i]))
        /\ result = "ok" => Top.indent = 0 /\ Len(log) = Len(order)

EmitsClosingKeyword ==
    /\ Running /\ Top.op = "str"
    /\ Top.s \in {T_endfunction \o <<NL>>, T_endclass \o <<NL>>}

AtLineStart(b) == b.content = <<>> \/ EndsWithNL(b.content)

\* C15: when format_function_declaration pushes "endfunction" or
\* format_class_declaration pushes "endclass", the buffer is at the start of
\* a line: its content is empty or ends with a line break.
C15_ClosingKeywordOwnLine == EmitsClosingKeyword => AtLineStart(Cur)

\* the declaration whose closing keyword is pushed next has a port list, or
\* is a class with a class item
HasPortListOrItem ==
    \A n \in {NodeAt(tree, stack[3].path)} :
        IF Sym(n) = "ClassDeclaration"
        THEN \E k \in 1..Len(n.kids) : Sym(n.kids[k]) = "ClassItem"
        ELSE \E k \in 1..Len(n.kids[2].kids) : Sym(n.kids[2].kids[k]) = "TfPortList"

\* C15 for the functions with a port list and the classes with an item
C15_WithPortListOrItem ==
    (EmitsClosingKeyword /\ HasPortListOrItem) => AtLineStart(Cur)

=============================================================================
